---- MODULE Spec2Model ----
(***************************************************************************)
(* A model of app.py, the Spotify Pakistan charts dashboard:               *)
(*   - load_local_data: the per-file ingestion loop (date from the file    *)
(*     name, read_csv, column renaming, URL synthesis, the required-field  *)
(*     gate, defaults, numeric coercion, dropna) and the final merge;      *)
(*   - the module-level render pass: the two empty conditions, the         *)
(*     filters, the movers table, the data table and its CSV export.       *)
(* Text is modelled by strings, taken apart with Len, SubSeq and \o, so    *)
(* that stripping, lower-casing, pattern matching, number parsing and      *)
(* number formatting are computed character by character.                  *)
(***************************************************************************)
EXTENDS Integers, Sequences, FiniteSets, TLC

VARIABLES
    files,        \* sorted(glob("data/*.csv")): the input files, in name order
    i,            \* the number of files the for loop has taken so far
    all_days,     \* the list of per-file frames appended so far
    out,          \* the value load_local_data returned (the merged table, df)
    pc,           \* "loop" while load_local_data runs, then "done" or "raised"
    sel,          \* the widget values of the session
    report,       \* what the last pass reported: "none" | "error" | "warning"
    prev_report,  \* what the pass before it reported ("start" before any pass)
    df_f,         \* the filtered table of the last pass
    sections,     \* the sections the last pass rendered, in order
    movers,       \* the movers table of the last pass
    table_df,     \* the searched and sorted data table of the last pass
    csv_bytes,    \* the export of the last pass: [header, rows] of field texts
    rereads       \* how many times an export was put back as the data directory

vars == <<files, i, all_days, out, pc, sel, report, prev_report, df_f, sections,
          movers, table_df, csv_bytes, rereads>>

passVars == <<sel, report, prev_report, df_f, sections, movers, table_df, csv_bytes>>

-----------------------------------------------------------------------------
(* Characters and strings *)

Ch(s, k) == SubSeq(s, k, k)

DigitChars == "0123456789"
UpperChars == "ABCDEFGHIJKLMNOPQRSTUVWXYZ"
LowerChars == "abcdefghijklmnopqrstuvwxyz"

CharsOf(s) == {Ch(s, k) : k \in 1..Len(s)}

IsDigit(c) == c \in CharsOf(DigitChars)
IsUpper(c) == c \in CharsOf(UpperChars)
IsAlnum(c) == c \in CharsOf(DigitChars) \cup CharsOf(UpperChars) \cup CharsOf(LowerChars)

\* str.isspace for the characters the model uses
IsSpace(c) == c \in {" ", "\t", "\n", "\r"}

DigitVal(c) == (CHOOSE k \in 1..10 : Ch(DigitChars, k) = c) - 1

LowerChar(c) ==
    IF IsUpper(c) THEN Ch(LowerChars, CHOOSE k \in 1..26 : Ch(UpperChars, k) = c)
    ELSE c

RECURSIVE ToLower(_)
ToLower(s) == IF s = "" THEN "" ELSE LowerChar(Ch(s, 1)) \o ToLower(SubSeq(s, 2, Len(s)))

RECURSIVE LStrip(_)
LStrip(s) == IF s # "" /\ IsSpace(Ch(s, 1)) THEN LStrip(SubSeq(s, 2, Len(s))) ELSE s

RECURSIVE RStrip(_)
RStrip(s) ==
    IF s # "" /\ IsSpace(Ch(s, Len(s))) THEN RStrip(SubSeq(s, 1, Len(s) - 1)) ELSE s

\* str.strip()
Strip(s) == RStrip(LStrip(s))

AllDigits(s) == \A k \in 1..Len(s) : IsDigit(Ch(s, k))

RECURSIVE StrToNat(_)
StrToNat(s) ==
    IF s = "" THEN 0
    ELSE 10 * StrToNat(SubSeq(s, 1, Len(s) - 1)) + DigitVal(Ch(s, Len(s)))

RECURSIVE NatToStr(_)
NatToStr(n) ==
    IF n < 10 THEN Ch(DigitChars, n + 1)
    ELSE NatToStr(n \div 10) \o Ch(DigitChars, (n % 10) + 1)

\* str(int)
IntToStr(n) == IF n < 0 THEN "-" \o NatToStr(0 - n) ELSE NatToStr(n)

\* str.contains(needle, case=False) for a needle without regex metacharacters
ContainsNoCase(hay, needle) ==
    LET h == ToLower(hay)
        n == ToLower(needle)
    IN  \E k \in 1..(Len(h) - Len(n) + 1) : SubSeq(h, k, k + Len(n) - 1) = n

-----------------------------------------------------------------------------
(* Cell values of a frame: a string, an int64, a float64 holding a whole    *)
(* number, a timestamp, or NaN/NaT.                                         *)

StrV(s)   == [k |-> "str", v |-> s, n |-> 0]
IntV(n)   == [k |-> "int", v |-> "", n |-> n]
FloatV(n) == [k |-> "float", v |-> "", n |-> n]
DateV(n)  == [k |-> "date", v |-> "", n |-> n]
NaN      == [k |-> "nan", v |-> "", n |-> 0]

IsNum(x) == x.k \in {"int", "float"}
IsNull(x) == x.k = "nan"

-----------------------------------------------------------------------------
(* extract_date_from_filename *)

DatePatternAt(s, k) ==
    /\ k + 9 <= Len(s)
    /\ AllDigits(SubSeq(s, k, k + 3))
    /\ Ch(s, k + 4) = "-"
    /\ AllDigits(SubSeq(s, k + 5, k + 6))
    /\ Ch(s, k + 7) = "-"
    /\ AllDigits(SubSeq(s, k + 8, k + 9))

IsLeap(y) == (y % 4 = 0 /\ y % 100 # 0) \/ y % 400 = 0

DaysInMonth(y, m) ==
    IF m = 2 THEN (IF IsLeap(y) THEN 29 ELSE 28)
    ELSE IF m \in {4, 6, 9, 11} THEN 30 ELSE 31

\* pd.to_datetime(text, errors="coerce") for a YYYY-MM-DD text: the day as
\* the number YYYYMMDD, NaT when it is no calendar day a Timestamp holds
ToDatetime(s) ==
    LET y == StrToNat(SubSeq(s, 1, 4))
        m == StrToNat(SubSeq(s, 6, 7))
        d == StrToNat(SubSeq(s, 9, 10))
    IN  IF /\ y \in 1678..2261
           /\ m \in 1..12
           /\ d \in 1..DaysInMonth(y, m)
        THEN DateV(y * 10000 + m * 100 + d)
        ELSE NaN

\* None is modelled by NaN: the caller skips the file on either
extract_date_from_filename(name) ==
    IF \E k \in 1..Len(name) : DatePatternAt(name, k)
    THEN LET k == CHOOSE k \in 1..Len(name) :
                     /\ DatePatternAt(name, k)
                     /\ \A j \in 1..(k - 1) : ~DatePatternAt(name, j)
         IN  ToDatetime(SubSeq(name, k, k + 9))
    ELSE NaN

-----------------------------------------------------------------------------
(* normalize_col *)

IsSep(c) == c = "_" \/ IsSpace(c)

\* re.sub(r"[_\s]+", " ", c)
RECURSIVE CollapseSeps(_)
CollapseSeps(s) ==
    IF s = "" THEN ""
    ELSE IF IsSep(Ch(s, 1))
         THEN IF Len(s) >= 2 /\ IsSep(Ch(s, 2))
              THEN CollapseSeps(SubSeq(s, 2, Len(s)))
              ELSE " " \o CollapseSeps(SubSeq(s, 2, Len(s)))
         ELSE Ch(s, 1) \o CollapseSeps(SubSeq(s, 2, Len(s)))

normalize_col(c) == CollapseSeps(ToLower(Strip(c)))

-----------------------------------------------------------------------------
(* uri_to_url *)

UriPrefix == "spotify:track:"
UrlPrefix == "https://open.spotify.com/track/"

\* the longest run of [A-Za-z0-9] at the start of s
RECURSIVE AlnumRun(_)
AlnumRun(s) ==
    IF s # "" /\ IsAlnum(Ch(s, 1)) THEN Ch(s, 1) \o AlnumRun(SubSeq(s, 2, Len(s)))
    ELSE ""

UriMatch(u) ==
    /\ Len(u) > Len(UriPrefix)
    /\ SubSeq(u, 1, Len(UriPrefix)) = UriPrefix
    /\ AlnumRun(SubSeq(u, Len(UriPrefix) + 1, Len(u))) # ""

\* uri_to_url without the strip
uri_to_url_unstripped(x) ==
    IF x.k # "str" THEN ""
    ELSE IF UriMatch(x.v)
         THEN UrlPrefix \o AlnumRun(SubSeq(x.v, Len(UriPrefix) + 1, Len(x.v)))
         ELSE ""

\* x is a cell value; the result is a Python str
uri_to_url(x) ==
    IF x.k # "str" THEN ""
    ELSE LET u == Strip(x.v)
         IN  IF UriMatch(u)
             THEN UrlPrefix \o AlnumRun(SubSeq(u, Len(UriPrefix) + 1, Len(u)))
             ELSE ""

-----------------------------------------------------------------------------
(* Frames: [columns |-> the column names, rows |-> the rows, each a sequence *)
(* of cell values aligned with the columns].  Column names may repeat, as   *)
(* they do in a DataFrame after a rename that sends two columns to one name.*)

EmptyFrame == [columns |-> <<>>, rows |-> <<>>]

ColIdx(df, name) == {c \in 1..Len(df.columns) : df.columns[c] = name}

\* name in df.columns
HasCol(df, name) == ColIdx(df, name) # {}

\* df[name] is a Series only when one column has that name
IsSeries(df, name) == Cardinality(ColIdx(df, name)) = 1

\* df[name] as the sequence of its cells, for a name held by one column
GetCol(df, name) ==
    LET c == CHOOSE c \in ColIdx(df, name) : TRUE
    IN  [r \in 1..Len(df.rows) |-> df.rows[r][c]]

\* df[name] = vals: replaces the column in place, or appends a new one
SetCol(df, name, vals) ==
    IF HasCol(df, name)
    THEN [df EXCEPT !.rows =
              [r \in 1..Len(df.rows) |->
                  [c \in 1..Len(df.columns) |->
                      IF df.columns[c] = name THEN vals[r] ELSE df.rows[r][c]]]]
    ELSE [columns |-> Append(df.columns, name),
          rows |-> [r \in 1..Len(df.rows) |-> Append(df.rows[r], vals[r])]]

\* df[name] = scalar
SetColScalar(df, name, x) == SetCol(df, name, [r \in 1..Len(df.rows) |-> x])

\* the cell of row under the column called name (NaN when there is none)
Cell(df, row, name) ==
    IF HasCol(df, name) THEN row[CHOOSE c \in ColIdx(df, name) : TRUE] ELSE NaN

-----------------------------------------------------------------------------
(* pd.read_csv: a file is [name, readable, header, rows], header and rows   *)
(* holding the text of the fields.  Each column's type is inferred from all *)
(* of its fields.                                                           *)

\* read_csv's default na_values
NAValues ==
    {"", "#N/A", "#N/A N/A", "#NA", "-1.#IND", "-1.#QNAN", "-NaN", "-nan",
     "1.#IND", "1.#QNAN", "<NA>", "N/A", "NA", "NULL", "NaN", "None", "n/a",
     "nan", "null"}

HasSign(t) == t # "" /\ Ch(t, 1) \in {"-", "+"}
Unsigned(t) == IF HasSign(t) THEN SubSeq(t, 2, Len(t)) ELSE t

\* an integer literal: an optional sign and digits
IsIntText(t) == Unsigned(t) # "" /\ AllDigits(Unsigned(t))

\* a float literal of a whole number: digits, a point, zeros
IsWholeFloatText(t) ==
    LET u == Unsigned(t)
    IN  \E p \in 2..(Len(u) - 1) :
            /\ Ch(u, p) = "."
            /\ AllDigits(SubSeq(u, 1, p - 1))
            /\ \A q \in (p + 1)..Len(u) : Ch(u, q) = "0"

IsNumText(t) == IsIntText(t) \/ IsWholeFloatText(t)

\* the number a numeric literal denotes
ParseNum(t) ==
    LET u == Unsigned(t)
        w == IF IsIntText(t) THEN u
             ELSE SubSeq(u, 1, (CHOOSE p \in 1..Len(u) : Ch(u, p) = ".") - 1)
        m == StrToNat(w)
    IN  IF t # "" /\ Ch(t, 1) = "-" THEN 0 - m ELSE m

\* the values of one column from the texts of its fields
InferColumn(texts) ==
    LET present == {r \in 1..Len(texts) : texts[r] \notin NAValues}
        allInt == \A r \in present : IsIntText(texts[r])
        allNum == \A r \in present : IsNumText(texts[r])
        noneNA == \A r \in 1..Len(texts) : r \in present
    IN  [r \in 1..Len(texts) |->
            IF r \notin present THEN NaN
            ELSE IF allInt /\ noneNA THEN IntV(ParseNum(texts[r]))
            ELSE IF allNum THEN FloatV(ParseNum(texts[r]))
            ELSE StrV(texts[r])]

CanRead(f) == f.readable /\ f.header # <<>>

\* pd.read_csv(f) followed by the strip of the column names (line 70)
read_csv(f) ==
    LET cols == [c \in 1..Len(f.header) |->
                    InferColumn([r \in 1..Len(f.rows) |-> f.rows[r][c]])]
    IN  [columns |-> [c \in 1..Len(f.header) |-> Strip(f.header[c])],
         rows |-> [r \in 1..Len(f.rows) |->
                      [c \in 1..Len(f.header) |-> cols[c][r]]]]

-----------------------------------------------------------------------------
(* The column renaming of load_local_data *)

PositionAliases == {"position", "rank", "chart position"}
TrackAliases    == {"track name", "track", "trackname", "song", "title"}
ArtistAliases   == {"artist", "artist name", "artist names", "artistname", "artistnames"}
StreamsAliases  == {"streams", "stream"}
UrlAliases      == {"url", "track url", "spotify url"}
UriAliases      == {"uri"}

\* rename_map[c], or c itself when the map has no entry for it
RenameTarget(c) ==
    LET cl == normalize_col(c)
    IN  IF cl \in PositionAliases THEN "Position"
        ELSE IF cl \in TrackAliases THEN "Track"
        ELSE IF cl \in ArtistAliases THEN "Artist"
        ELSE IF cl \in StreamsAliases THEN "Streams"
        ELSE IF cl \in UrlAliases THEN "URL"
        ELSE IF cl \in UriAliases THEN "URI"
        ELSE c

Rename(df) ==
    [df EXCEPT !.columns = [c \in 1..Len(df.columns) |-> RenameTarget(df.columns[c])]]

\* lines 91-96: the URL column, from URI when there is no URL
WithUrl(df) ==
    IF ~HasCol(df, "URL")
    THEN IF HasCol(df, "URI")
         THEN SetCol(df, "URL",
                     [r \in 1..Len(df.rows) |-> StrV(uri_to_url(GetCol(df, "URI")[r]))])
         ELSE SetColScalar(df, "URL", StrV(""))
    ELSE df

\* the gate written with "and": it lets a source pass that lacks one column
GateFailsOnlyIfBothMissing(df) == ~HasCol(df, "Position") /\ ~HasCol(df, "Streams")

\* line 99: the source is skipped when this holds
GateFails(df) == ~HasCol(df, "Position") \/ ~HasCol(df, "Streams")

\* lines 102-105
WithDefaults(df) ==
    LET t == IF ~HasCol(df, "Track") THEN SetColScalar(df, "Track", StrV("Unknown")) ELSE df
    IN  IF ~HasCol(t, "Artist") THEN SetColScalar(t, "Artist", StrV("Unknown")) ELSE t

\* pd.to_numeric(series, errors="coerce")
to_numeric(cells) ==
    LET val(x) == IF IsNum(x) THEN x
                  ELSE IF x.k = "str" /\ IsNumText(x.v)
                       THEN (IF IsIntText(x.v) THEN IntV(ParseNum(x.v))
                             ELSE FloatV(ParseNum(x.v)))
                       ELSE NaN
        asFloat == \E r \in 1..Len(cells) : val(cells[r]).k # "int"
    IN  [r \in 1..Len(cells) |->
            IF IsNull(val(cells[r])) THEN NaN
            ELSE IF asFloat THEN FloatV(val(cells[r]).n)
            ELSE val(cells[r])]

\* pd.to_numeric raises TypeError on a DataFrame, which is what df[name] is
\* when two columns were renamed to the same name
CoercionRaises(df) == ~IsSeries(df, "Position") \/ ~IsSeries(df, "Streams")

\* lines 107-109
Coerced(df, d) ==
    LET p == SetCol(df, "Position", to_numeric(GetCol(df, "Position")))
        s == SetCol(p, "Streams", to_numeric(GetCol(p, "Streams")))
    IN  SetColScalar(s, "Date", d)

\* dropna(how="all"): a row goes only when both values are missing
DropNaHowAll(df) ==
    [df EXCEPT !.rows =
        SelectSeq(df.rows, LAMBDA row : ~(/\ IsNull(Cell(df, row, "Position"))
                                          /\ IsNull(Cell(df, row, "Streams"))))]

\* a dropna that also enforces a rank of at least 1
DropNaAndRankBelowOne(df) ==
    [df EXCEPT !.rows =
        SelectSeq(df.rows, LAMBDA row : /\ ~IsNull(Cell(df, row, "Position"))
                                        /\ ~IsNull(Cell(df, row, "Streams"))
                                        /\ Cell(df, row, "Position").n >= 1)]

\* line 111: df.dropna(subset=["Position", "Streams"])
DropNa(df) ==
    [df EXCEPT !.rows =
        SelectSeq(df.rows, LAMBDA row : /\ ~IsNull(Cell(df, row, "Position"))
                                        /\ ~IsNull(Cell(df, row, "Streams")))]

\* the frame one loop iteration appends for file f, whose name gave day d
DayFrame(f, d) == DropNa(Coerced(WithDefaults(WithUrl(Rename(read_csv(f)))), d))

-----------------------------------------------------------------------------
(* The merge: lines 114-123 *)

RECURSIVE Concat(_)
Concat(seqs) == IF seqs = <<>> THEN <<>> ELSE Head(seqs) \o Concat(Tail(seqs))

RECURSIVE Dedup(_)
Dedup(names) ==
    IF names = <<>> THEN <<>>
    ELSE LET front == Dedup(SubSeq(names, 1, Len(names) - 1))
             last == names[Len(names)]
         IN  IF \E c \in 1..Len(front) : front[c] = last THEN front
             ELSE Append(front, last)

\* the dtype a numeric column takes when frames are stacked: float64 as soon
\* as one cell is a float or is missing, int64 otherwise
Promote(rows, c) ==
    LET numeric == \A r \in 1..Len(rows) : IsNum(rows[r][c]) \/ IsNull(rows[r][c])
        asFloat == \E r \in 1..Len(rows) : rows[r][c].k # "int"
    IN  [r \in 1..Len(rows) |->
            IF numeric /\ asFloat /\ IsNum(rows[r][c]) THEN FloatV(rows[r][c].n)
            ELSE rows[r][c]]

\* pd.concat(frames, ignore_index=True): the union of the columns in order of
\* first appearance, the rows of every frame in order, NaN where a frame
\* lacks a column
concat(frames) ==
    LET cols == Dedup(Concat([f \in 1..Len(frames) |-> frames[f].columns]))
        raw == Concat([f \in 1..Len(frames) |->
                   [r \in 1..Len(frames[f].rows) |->
                       [c \in 1..Len(cols) |-> Cell(frames[f], frames[f].rows[r], cols[c])]]])
        byCol == [c \in 1..Len(cols) |-> Promote(raw, c)]
    IN  [columns |-> cols,
         rows |-> [r \in 1..Len(raw) |-> [c \in 1..Len(cols) |-> byCol[c][r]]]]

Canonical == <<"Date", "Position", "Track", "Artist", "Streams", "URL">>

\* out[keep] with keep = [c for c in Canonical if c in out.columns]
Keep(df) ==
    LET keep == SelectSeq(Canonical, LAMBDA c : HasCol(df, c))
    IN  [columns |-> keep,
         rows |-> [r \in 1..Len(df.rows) |->
                      [c \in 1..Len(keep) |-> Cell(df, df.rows[r], keep[c])]]]

\* str(x) for a cell value
ToStr(x) ==
    IF x.k = "str" THEN x.v
    ELSE IF x.k = "int" THEN IntToStr(x.n)
    ELSE IF x.k = "float" THEN IntToStr(x.n) \o ".0"
    ELSE "nan"

\* df[name] = df[name].astype(str)
AsTypeStr(df, name) ==
    SetCol(df, name, [r \in 1..Len(df.rows) |-> StrV(ToStr(GetCol(df, name)[r]))])

Merged(frames) == AsTypeStr(AsTypeStr(Keep(concat(frames)), "Track"), "Artist")

-----------------------------------------------------------------------------
(* load_local_data, one action per outcome of a loop iteration *)

NextFile == files[i + 1]
InLoop == pc = "loop" /\ i < Len(files)

\* the frame of the next file as the gate sees it
Mapped(f) == WithUrl(Rename(read_csv(f)))

\* lines 55-56
ReturnNoFiles ==
    /\ pc = "loop" /\ files = <<>>
    /\ out' = EmptyFrame
    /\ pc' = "done"
    /\ UNCHANGED <<files, i, all_days, passVars, rereads>>

\* lines 61-63
SkipNoDate ==
    /\ InLoop
    /\ IsNull(extract_date_from_filename(NextFile.name))
    /\ i' = i + 1
    /\ UNCHANGED <<files, all_days, out, pc, passVars, rereads>>

\* lines 65-68
SkipUnreadable ==
    /\ InLoop
    /\ ~IsNull(extract_date_from_filename(NextFile.name))
    /\ ~CanRead(NextFile)
    /\ i' = i + 1
    /\ UNCHANGED <<files, all_days, out, pc, passVars, rereads>>

\* lines 98-100
SkipGate ==
    /\ InLoop
    /\ ~IsNull(extract_date_from_filename(NextFile.name))
    /\ CanRead(NextFile)
    /\ GateFails(Mapped(NextFile))
    /\ i' = i + 1
    /\ UNCHANGED <<files, all_days, out, pc, passVars, rereads>>

\* lines 107-108 raising: nothing catches it, load_local_data ends there
RaiseInCoercion ==
    /\ InLoop
    /\ ~IsNull(extract_date_from_filename(NextFile.name))
    /\ CanRead(NextFile)
    /\ ~GateFails(Mapped(NextFile))
    /\ CoercionRaises(WithDefaults(Mapped(NextFile)))
    /\ i' = i + 1
    /\ pc' = "raised"
    /\ UNCHANGED <<files, all_days, out, passVars, rereads>>

\* lines 102-112
AppendDay ==
    /\ InLoop
    /\ ~IsNull(extract_date_from_filename(NextFile.name))
    /\ CanRead(NextFile)
    /\ ~GateFails(Mapped(NextFile))
    /\ ~CoercionRaises(WithDefaults(Mapped(NextFile)))
    /\ all_days' = Append(all_days,
                          DayFrame(NextFile, extract_date_from_filename(NextFile.name)))
    /\ i' = i + 1
    /\ UNCHANGED <<files, out, pc, passVars, rereads>>

\* lines 114-123
Merge ==
    /\ pc = "loop" /\ files # <<>> /\ i = Len(files)
    /\ out' = IF all_days = <<>> THEN EmptyFrame ELSE Merged(all_days)
    /\ pc' = "done"
    /\ UNCHANGED <<files, i, all_days, passVars, rereads>>

LoadNext ==
    \/ ReturnNoFiles
    \/ SkipNoDate
    \/ SkipUnreadable
    \/ SkipGate
    \/ RaiseInCoercion
    \/ AppendDay
    \/ Merge

-----------------------------------------------------------------------------
(* The render pass: the script from line 173 on, run once per interaction   *)

\* the day number of the date YYYYMMDD, for date comparison and timedelta
Ordinal(ymd) ==
    LET y0 == ymd \div 10000
        m == (ymd \div 100) % 100
        d == ymd % 100
        y == IF m <= 2 THEN y0 - 1 ELSE y0
        mp == IF m > 2 THEN m - 3 ELSE m + 9
    IN  365 * y + y \div 4 - y \div 100 + y \div 400 + (153 * mp + 2) \div 5 + d - 1

RowDate(df, row) == Ordinal(Cell(df, row, "Date").n)
RowPosition(df, row) == Cell(df, row, "Position").n
RowTrack(df, row) == Cell(df, row, "Track").v
RowArtist(df, row) == Cell(df, row, "Artist").v

SetMin(S) == CHOOSE x \in S : \A y \in S : x <= y
SetMax(S) == CHOOSE x \in S : \A y \in S : x >= y

DatesOf(df) == {RowDate(df, df.rows[r]) : r \in 1..Len(df.rows)}

\* lines 203-204
min_date(df) == SetMin(DatesOf(df))
max_date(df) == SetMax(DatesOf(df))

PresetDays(p) ==
    IF p = "Last 7 days" THEN 7 ELSE IF p = "Last 14 days" THEN 14 ELSE 30

\* lines 214-228: the date range the widgets w give
start_date(df, w) ==
    IF w.preset # "Custom"
    THEN SetMax({min_date(df), max_date(df) - (PresetDays(w.preset) - 1)})
    ELSE IF Len(w.date_range) = 2 THEN w.date_range[1] ELSE min_date(df)

end_date(df, w) ==
    IF w.preset # "Custom" THEN max_date(df)
    ELSE IF Len(w.date_range) = 2 THEN w.date_range[2] ELSE max_date(df)

SelectRows(df, Keeping(_)) == [df EXCEPT !.rows = SelectSeq(df.rows, Keeping)]

\* lines 246-247
KeywordFilter(df, w) ==
    IF Strip(w.keyword) # ""
    THEN SelectRows(df, LAMBDA row : ContainsNoCase(RowTrack(df, row), Strip(w.keyword)))
    ELSE df

\* lines 240-247
Filtered(df, w) ==
    LET byDate == SelectRows(df, LAMBDA row : /\ RowDate(df, row) >= start_date(df, w)
                                              /\ RowDate(df, row) <= end_date(df, w))
        byRank == SelectRows(byDate, LAMBDA row : RowPosition(df, row) <= w.rank_max)
        byArtist == IF w.artist_choice # "(All)"
                    THEN SelectRows(byRank, LAMBDA row : RowArtist(df, row) = w.artist_choice)
                    ELSE byRank
    IN  KeywordFilter(byArtist, w)

-----------------------------------------------------------------------------
(* The movers table: lines 342-354 *)

TopN == 10

TracksOf(df) == {RowTrack(df, df.rows[r]) : r \in 1..Len(df.rows)}

RowsOfTrack(df, t) == {r \in 1..Len(df.rows) : RowTrack(df, df.rows[r]) = t}

RECURSIVE Perms(_)
Perms(S) ==
    IF S = {} THEN {<<>>} ELSE UNION {{<<x>> \o p : p \in Perms(S \ {x})} : x \in S}

\* the orders sort_values("Date") may leave the rows of track t in: the
\* default sort is not stable, so rows of one day come in any order
DateOrders(df, t) ==
    {p \in Perms(RowsOfTrack(df, t)) :
        \A j \in 1..(Len(p) - 1) : RowDate(df, df.rows[p[j]]) <= RowDate(df, df.rows[p[j + 1]])}

RECURSIVE OrderChoices(_, _)
\* tmp, as far as the shift sees it: for every track its rows in sorted order
OrderChoices(df, tracks) ==
    IF tracks = {} THEN {<<>>}
    ELSE LET t == CHOOSE t \in tracks : TRUE
         IN  {(t :> p) @@ rest : p \in DateOrders(df, t),
                                 rest \in OrderChoices(df, tracks \ {t})}

\* the row whose Position the shift(1) within the track's group gives row r
\* as prev_rank; 0 when r comes first and prev_rank is NaN
PrevRow(df, order, r) ==
    LET p == order[RowTrack(df, df.rows[r])]
        j == CHOOSE j \in 1..Len(p) : p[j] = r
    IN  IF j = 1 THEN 0 ELSE p[j - 1]

\* the change computed the wrong way round
RankChangeReversed(df, order, r) ==
    RowPosition(df, df.rows[r]) - RowPosition(df, df.rows[PrevRow(df, order, r)])

\* line 344, for a row with a prev_rank
RankChange(df, order, r) ==
    RowPosition(df, df.rows[PrevRow(df, order, r)]) - RowPosition(df, df.rows[r])

\* the rows dropna(subset=["rank_change"]) keeps
WithChange(df, order) == {r \in 1..Len(df.rows) : PrevRow(df, order, r) # 0}

\* lines 346-349: one row per (Track, Artist) among the rows with a change
MoverRows(df, order) ==
    LET rows == WithChange(df, order)
        keys == {<<RowTrack(df, df.rows[r]), RowArtist(df, df.rows[r])>> : r \in rows}
        changes(key) == {RankChange(df, order, r) :
                            r \in {x \in rows : /\ RowTrack(df, df.rows[x]) = key[1]
                                                /\ RowArtist(df, df.rows[x]) = key[2]}}
    IN  {[Track |-> key[1], Artist |-> key[2],
          best_improvement |-> SetMax(changes(key)),
          worst_drop |-> SetMin(changes(key))] : key \in keys}

RECURSIVE SortedByBest(_)
\* the orders sort_values("best_improvement", ascending=False) may give
SortedByBest(S) ==
    IF S = {} THEN {<<>>}
    ELSE UNION {{<<x>> \o rest : rest \in SortedByBest(S \ {x})} :
                   x \in {y \in S : \A z \in S : y.best_improvement >= z.best_improvement}}

\* head(n)
FirstRows(seq, n) == SubSeq(seq, 1, IF Len(seq) < n THEN Len(seq) ELSE n)

\* a head that keeps one row more
HeadOneMore(seq) == FirstRows(seq, TopN + 1)

\* line 351
HeadTopN(seq) == FirstRows(seq, TopN)

\* the tables the movers computation may give for the filtered table df
MoversOf(df) ==
    {HeadTopN(s) : s \in UNION {SortedByBest(MoverRows(df, order)) :
                                   order \in OrderChoices(df, TracksOf(df))}}

-----------------------------------------------------------------------------
(* The data table and its export: lines 406-418 *)

\* lines 408-412: q is tested stripped and used as typed
Search(df, q) ==
    IF Strip(q) # ""
    THEN SelectRows(df, LAMBDA row : \/ ContainsNoCase(RowTrack(df, row), q)
                                     \/ ContainsNoCase(RowArtist(df, row), q))
    ELSE df

RowBefore(df, a, b) ==
    \/ RowDate(df, a) < RowDate(df, b)
    \/ RowDate(df, a) = RowDate(df, b) /\ RowPosition(df, a) <= RowPosition(df, b)

RECURSIVE SortRows(_, _)
\* sort_values(["Date", "Position"]): rows equal on both keep their order
SortRows(df, rows) ==
    IF rows = <<>> THEN <<>>
    ELSE LET last == rows[Len(rows)]
             front == SortRows(df, SubSeq(rows, 1, Len(rows) - 1))
             n == Cardinality({j \in 1..Len(front) : RowBefore(df, front[j], last)})
         IN  SubSeq(front, 1, n) \o <<last>> \o SubSeq(front, n + 1, Len(front))

TableOf(df, q) == [df EXCEPT !.rows = SortRows(df, Search(df, q).rows)]

Pad(n, width) ==
    LET t == NatToStr(n)
    IN  IF Len(t) < width THEN SubSeq("0000", 1, width - Len(t)) \o t ELSE t

DateText(ymd) ==
    Pad(ymd \div 10000, 4) \o "-" \o Pad((ymd \div 100) % 100, 2) \o "-" \o Pad(ymd % 100, 2)

\* the text to_csv writes for a cell: a missing value is written as nothing
FieldText(x) ==
    IF x.k = "str" THEN x.v
    ELSE IF x.k = "int" THEN IntToStr(x.n)
    ELSE IF x.k = "float" THEN IntToStr(x.n) \o ".0"
    ELSE IF x.k = "date" THEN DateText(x.n)
    ELSE ""

\* table_df.to_csv(index=False): the header row, then one row of fields each
ToCsv(df) ==
    [header |-> df.columns,
     rows |-> [r \in 1..Len(df.rows) |->
                  [c \in 1..Len(df.columns) |-> FieldText(df.rows[r][c])]]]

-----------------------------------------------------------------------------
(* One pass over the script with the widgets at w *)

AllSections == <<"kpi", "trends and top entities", "movers and highlights",
                 "track drilldown", "data table">>

NoCsv == [header |-> <<>>, rows |-> <<>>]

\* no widget has been created yet
NoSel == [preset |-> "", date_range |-> <<>>, rank_max |-> 0,
          artist_choice |-> "", keyword |-> "", q |-> ""]

SliderMin == 10
SliderMax == 200
SliderDefault == 50

\* the widgets as a first run creates them
Defaults(df) ==
    [preset |-> "Custom", date_range |-> <<min_date(df), max_date(df)>>,
     rank_max |-> SliderDefault, artist_choice |-> "(All)", keyword |-> "", q |-> ""]

\* lines 195-201: st.error and st.stop before any widget exists
StopNoData ==
    /\ report' = "error"
    /\ sel' = sel
    /\ df_f' = EmptyFrame
    /\ sections' = <<>>
    /\ movers' = <<>>
    /\ table_df' = EmptyFrame
    /\ csv_bytes' = NoCsv

\* lines 249-251: st.warning and st.stop; the search box is not reached, so
\* its text is gone on the next run
StopNoMatch(w) ==
    /\ report' = "warning"
    /\ sel' = [w EXCEPT !.q = ""]
    /\ df_f' = Filtered(out, w)
    /\ sections' = <<>>
    /\ movers' = <<>>
    /\ table_df' = EmptyFrame
    /\ csv_bytes' = NoCsv

\* lines 253-426
RenderAll(w) ==
    /\ report' = "none"
    /\ sel' = w
    /\ df_f' = Filtered(out, w)
    /\ sections' = AllSections
    /\ movers' \in MoversOf(Filtered(out, w))
    /\ table_df' = TableOf(Filtered(out, w), w.q)
    /\ csv_bytes' = ToCsv(TableOf(Filtered(out, w), w.q))

\* a pass that tests the filtered table before it tests the merged one
RenderPassFilterFirst(w) ==
    /\ pc = "done"
    /\ prev_report' = report
    /\ IF out.rows # <<>> /\ Filtered(out, w).rows = <<>> THEN StopNoData
       ELSE IF out.rows = <<>> THEN StopNoMatch(w)
       ELSE RenderAll(w)
    /\ UNCHANGED <<files, i, all_days, out, pc, rereads>>

RenderPass(w) ==
    /\ pc = "done"
    /\ prev_report' = report
    /\ IF out.rows = <<>> THEN StopNoData
       ELSE IF Filtered(out, w).rows = <<>> THEN StopNoMatch(w)
       ELSE RenderAll(w)
    /\ UNCHANGED <<files, i, all_days, out, pc, rereads>>

\* the first run of a session
FirstPass ==
    /\ sel = NoSel
    /\ RenderPass(IF out.rows = <<>> THEN NoSel ELSE Defaults(out))

ArtistOptions(df) == {"(All)"} \cup {RowArtist(df, df.rows[r]) : r \in 1..Len(df.rows)}

KeywordChoices == {"", "suno", " JHOL ", "zzz"}
SearchChoices == {"", "maanu", "Suno "}
RankChoices == {SliderMin, SliderDefault, SliderMax}

\* leaving "Custom" removes the date widget: it comes back with its default
SetPreset ==
    /\ sel # NoSel
    /\ \E p \in {"Custom", "Last 7 days", "Last 14 days", "Last 30 days"} \ {sel.preset} :
          RenderPass([sel EXCEPT !.preset = p,
                                 !.date_range = <<min_date(out), max_date(out)>>])

\* a range of two days, or one day while the second is not picked yet
SetDateRange ==
    /\ sel # NoSel /\ sel.preset = "Custom"
    /\ \E a \in DatesOf(out), b \in DatesOf(out) :
          /\ a <= b
          /\ \/ RenderPass([sel EXCEPT !.date_range = <<a, b>>])
             \/ RenderPass([sel EXCEPT !.date_range = <<a>>])

SetRankMax ==
    /\ sel # NoSel
    /\ \E n \in RankChoices : RenderPass([sel EXCEPT !.rank_max = n])

SetArtist ==
    /\ sel # NoSel
    /\ \E a \in ArtistOptions(out) : RenderPass([sel EXCEPT !.artist_choice = a])

SetKeyword ==
    /\ sel # NoSel
    /\ \E k \in KeywordChoices : RenderPass([sel EXCEPT !.keyword = k])

\* the search box exists only after a pass that rendered the data table
SetSearch ==
    /\ sel # NoSel /\ report = "none"
    /\ \E q \in SearchChoices : RenderPass([sel EXCEPT !.q = q])

-----------------------------------------------------------------------------
(* The export put back into the data directory and loaded anew *)

MaxRereads == 1

\* the name the download button gives the file, and that name with a day
ExportNames ==
    {"spotify_pk_filtered.csv", "spotify_pk_filtered-2025-12-22.csv",
     "spotify_pk_filtered-2025-12-23.csv"}

\* an export written without its header row
ExportFileNoHeader(name, csv) ==
    [name |-> name, readable |-> TRUE,
     header |-> IF csv.rows = <<>> THEN <<>> ELSE csv.rows[1],
     rows |-> IF csv.rows = <<>> THEN <<>> ELSE Tail(csv.rows)]

ExportFile(name, csv) ==
    [name |-> name, readable |-> TRUE, header |-> csv.header, rows |-> csv.rows]

Reingest ==
    /\ pc = "done" /\ report = "none" /\ sections # <<>>
    /\ rereads < MaxRereads
    /\ \E name \in ExportNames : files' = <<ExportFile(name, csv_bytes)>>
    /\ i' = 0
    /\ all_days' = <<>>
    /\ out' = EmptyFrame
    /\ pc' = "loop"
    /\ rereads' = rereads + 1
    /\ sel' = NoSel
    /\ report' = "start"
    /\ prev_report' = "start"
    /\ df_f' = EmptyFrame
    /\ sections' = <<>>
    /\ movers' = <<>>
    /\ UNCHANGED <<table_df, csv_bytes>>

-----------------------------------------------------------------------------
(* The inputs of the load: which files the data directory holds *)

MaxFiles == 2       \* files in the data directory
MaxRows == 2        \* rows of a file whose rows vary freely
MaxIdLen == 2       \* characters of a track identifier

\* file names in the order sorted() gives them
NamePool ==
    <<"notes.csv",
      "regional-pk-daily-2025-02-30.csv",
      "regional-pk-daily-2025-12-22.csv",
      "regional-pk-daily-2025-12-23.csv">>

File(name, readable, header, rows) ==
    [name |-> name, readable |-> readable, header |-> header, rows |-> rows]

\* what a file may hold when several files are loaded together
ContentPool ==
    { [readable |-> FALSE, header |-> <<>>, rows |-> <<>>],
      [readable |-> TRUE, header |-> <<>>, rows |-> <<>>],
      [readable |-> TRUE, header |-> <<"Artist", "Track", "URL">>,
       rows |-> << <<"Talha Anjum", "Kahani Suno", "https://open.spotify.com/track/k1">> >>],
      [readable |-> TRUE, header |-> <<"Position", "Track Name">>,
       rows |-> << <<"1", "Jhol">> >>],
      [readable |-> TRUE, header |-> <<"Position", "Rank", "Streams">>,
       rows |-> << <<"1", "1", "500">> >>],
      [readable |-> TRUE, header |-> <<"rank", "track_name", "artist_names", "streams", "url">>,
       rows |-> << <<"1", "Jhol", "Maanu", "900", "https://open.spotify.com/track/j1">>,
                   <<"2", "Pasoori", "Ali Sethi", "800", "">> >>],
      [readable |-> TRUE, header |-> <<"Position", "Streams">>,
       rows |-> << <<"0", "700">>, <<"-3", "600">> >>],
      [readable |-> TRUE, header |-> <<" Chart  Position ", "STREAMS", "uri", "Song">>,
       rows |-> << <<"N/A", "500">> \o <<"spotify:track:k1", "Kahani Suno">>,
                   <<"12", "400", "not-a-uri", "">> >>],
      [readable |-> TRUE, header |-> <<"Position", "Track", "Artist", "Streams", "URL">>,
       rows |-> <<>>] }

RECURSIVE Increasing(_, _)
\* the strictly increasing sequences of n indices into NamePool
Increasing(n, from) ==
    IF n = 0 THEN {<<>>}
    ELSE UNION {{<<k>> \o rest : rest \in Increasing(n - 1, k + 1)} :
                    k \in from..Len(NamePool)}

\* up to MaxFiles files with distinct names, in name order
MultiFiles ==
    UNION {UNION {{[k \in 1..n |-> File(NamePool[idx[k]], cont[k].readable,
                                        cont[k].header, cont[k].rows)] :
                      cont \in [1..n -> ContentPool]} :
                  idx \in Increasing(n, 1)} :
           n \in 0..MaxFiles}

RECURSIVE SeqsUpTo(_, _)
\* the sequences of at most n elements of S
SeqsUpTo(S, n) ==
    IF n = 0 THEN {<<>>}
    ELSE {<<>>} \cup {<<x>> \o rest : x \in S, rest \in SeqsUpTo(S, n - 1) }

PositionTexts == {"4", "0", "-3", "n/a"}
StreamsTexts == {"500", "x"}

\* one file whose rows vary freely
RowFiles ==
    {<<File("regional-pk-daily-2025-12-22.csv", TRUE, <<"rank", "stream", "title">>, rows)>> :
        rows \in SeqsUpTo({<<p, s, "Jhol">> : p \in PositionTexts, s \in StreamsTexts}
                           \cup {<<"4", "500", "">>}, MaxRows)}

RECURSIVE Ids(_)
\* identifiers of exactly n characters
Ids(n) == IF n = 0 THEN {""} ELSE {c \o rest : c \in {"a", "Z", "7"}, rest \in Ids(n - 1)}

UriTexts ==
    {pad \o pre \o id \o post :
        pad \in {"", " "},
        pre \in {"spotify:track:", "spotify:album:", ""},
        id \in UNION {Ids(n) : n \in 0..MaxIdLen},
        post \in {"", "-x", " "}}

\* one file of one row whose link columns vary
UriFiles ==
    {<<File("regional-pk-daily-2025-12-22.csv", TRUE, <<"Position", "Streams", "uri">>,
            << <<"1", "500", u>> >>)>> : u \in UriTexts}
    \cup {<<File("regional-pk-daily-2025-12-22.csv", TRUE, <<"Position", "Streams">> \o h,
                 << <<"1", "500">> \o [c \in 1..Len(h) |-> u] >>)>> :
             h \in {<<>>, <<"URI", "Spotify_URL">>, <<"Track URL">>},
             u \in {"", "spotify:track:aZ7", "https://open.spotify.com/track/k1"}}

\* before the first pass of a session
PassIdle ==
    /\ sel = NoSel
    /\ report = "start"
    /\ prev_report = "start"
    /\ df_f = EmptyFrame
    /\ sections = <<>>
    /\ movers = <<>>
    /\ table_df = EmptyFrame
    /\ csv_bytes = NoCsv

Init ==
    /\ files \in MultiFiles \cup RowFiles \cup UriFiles
    /\ i = 0
    /\ all_days = <<>>
    /\ out = EmptyFrame
    /\ pc = "loop"
    /\ PassIdle
    /\ rereads = 0

Spec == Init /\ [][LoadNext]_vars


-----------------------------------------------------------------------------
(* Directories for the render pass *)

\* directories whose files are passed over, or whose load does not finish
OddDirs ==
    { <<>>,
      <<File("notes.csv", TRUE, <<"Position", "Streams">>, << <<"1", "500">> >>),
        File("regional-pk-daily-2025-12-10.csv", FALSE, <<>>, <<>>),
        File("regional-pk-daily-2025-12-22.csv", TRUE, <<"Artist", "Track">>,
             << <<"Maanu", "Jhol">> >>)>>,
      <<File("pk-2025-12-22.csv", TRUE, <<"Position", "Rank", "Streams">>,
             << <<"1", "1", "500">> >>)>> }

ChartHeader == <<"Position", "Track", "Artist", "Streams", "URL">>

Day(name, rows) == File(name, TRUE, ChartHeader, rows)

\* charts of one, two and three days, thirteen days apart at most
RenderDirs ==
    { <<Day("regional-pk-daily-2025-12-10.csv",
            << <<"4", "Kahani Suno", "Talha Anjum", "900", "">>,
               <<"60", "Jhol", "Maanu", "500", "">> >>),
        Day("regional-pk-daily-2025-12-23.csv",
            << <<"12", "Kahani Suno", "Talha Anjum", "800", "">>,
               <<"3", "Jhol", "Maanu", "950", "">> >>)>>,
      <<Day("regional-pk-daily-2025-12-22.csv",
            << <<"12", "Kahani Suno", "Talha Anjum", "800", "">> >>),
        Day("regional-pk-daily-2025-12-23.csv",
            << <<"60", "Pasoori", "Ali Sethi", "700", "">> >>)>>,
      <<Day("regional-pk-daily-2025-12-22.csv",
            << <<"201", "Jhol", "Maanu", "100", "">> >>)>> }

Loading(dirs) ==
    /\ files \in dirs
    /\ i = 0
    /\ all_days = <<>>
    /\ out = EmptyFrame
    /\ pc = "loop"
    /\ PassIdle
    /\ rereads = 0

InitRender == Loading(OddDirs \cup RenderDirs)

NextRender ==
    \/ LoadNext
    \/ FirstPass
    \/ SetPreset
    \/ SetDateRange
    \/ SetRankMax
    \/ SetArtist
    \/ SetKeyword
    \/ SetSearch

SpecRender == InitRender /\ [][NextRender]_vars

-----------------------------------------------------------------------------
(* Directories for the movers table *)

MaxChartRows == 3   \* rows of a small chart, over all its days

ChartDays ==
    <<"regional-pk-daily-2025-12-21.csv",
      "regional-pk-daily-2025-12-22.csv",
      "regional-pk-daily-2025-12-23.csv">>

ChartRowPool ==
    << <<"10", "Kahani Suno", "Talha Anjum", "500", "">>,
       <<"4", "Kahani Suno", "Talha Anjum", "500", "">>,
       <<"12", "Kahani Suno", "Talha Anjum", "500", "">>,
       <<"4", "Kahani Suno", "Umair", "500", "">>,
       <<"10", "Jhol", "Maanu", "500", "">> >>

\* a slot <<d, k>> puts row k of the pool into the file of day d
ChartSlots == (1..Len(ChartDays)) \X (1..Len(ChartRowPool))

DayRows(slots, d) ==
    LET idx == SelectSeq([k \in 1..Len(ChartRowPool) |-> k], LAMBDA k : <<d, k>> \in slots)
    IN  [j \in 1..Len(idx) |-> ChartRowPool[idx[j]]]

\* three successive days sharing at most MaxChartRows rows in any way
SmallCharts ==
    {[d \in 1..Len(ChartDays) |-> Day(ChartDays[d], DayRows(slots, d))] :
        slots \in {S \in SUBSET ChartSlots : Cardinality(S) <= MaxChartRows}}

BigTracks ==
    <<"Afsanay", "Bikhra", "Chal Diye", "Dil Se", "Ehsaas", "Faasle",
      "Gumaan", "Iraaday", "Jhol", "Laapata", "Maand", "Nazar">>

\* how many places each of them climbs from the second day to the third
BigGains == <<12, 11, 10, 9, 8, 7, 5, 4, 3, 3, 2, 1>>

BigRows(day) ==
    [k \in 1..Len(BigTracks) |->
        <<NatToStr(20 + k + (IF day = 2 THEN BigGains[k] ELSE 0)),
          BigTracks[k], "Maanu", "500", "">>]

\* more tracks with a change than the movers table holds, two of them level
\* at its last place
BigChart ==
    <<Day(ChartDays[1], << <<"10", "Kahani Suno", "Talha Anjum", "500", "">> >>),
      Day(ChartDays[2], << <<"4", "Kahani Suno", "Talha Anjum", "500", "">> >> \o BigRows(2)),
      Day(ChartDays[3], << <<"12", "Kahani Suno", "Talha Anjum", "500", "">> >> \o BigRows(3))>>

InitMovers == Loading(OddDirs \cup SmallCharts \cup {BigChart})

NextMovers ==
    \/ LoadNext
    \/ FirstPass
    \/ SetRankMax

SpecMovers == InitMovers /\ [][NextMovers]_vars

-----------------------------------------------------------------------------
(* Directories for the export *)

\* what a day's file may hold: links present, missing and absent; titles
\* absent; positions read as whole numbers and as floats
ExportPool ==
    { [header |-> <<"rank", "track_name", "artist_names", "streams", "url">>,
       rows |-> << <<"1", "Jhol", "Maanu", "900", "https://open.spotify.com/track/j1">>,
                   <<"2", "Pasoori", "Ali Sethi", "800", "">> >>],
      [header |-> <<"Position", "Streams">>,
       rows |-> << <<"7", "700">> >>],
      [header |-> <<" Chart  Position ", "STREAMS", "uri", "Song", "Artist">>,
       rows |-> << <<"N/A", "500", "spotify:track:k1", "Kahani Suno", "Talha Anjum">>,
                   <<"12", "400", "spotify:track:k1", "Kahani Suno", "Talha Anjum">> >>] }

ExportDays == <<"regional-pk-daily-2025-12-22.csv", "regional-pk-daily-2025-12-23.csv">>

ExportDirs ==
    {<<File(ExportDays[d], TRUE, c.header, c.rows)>> : d \in 1..2, c \in ExportPool}
    \cup {<<File(ExportDays[1], TRUE, c.header, c.rows),
            File(ExportDays[2], TRUE, e.header, e.rows)>> : c \in ExportPool, e \in ExportPool}

InitExport == Loading(OddDirs \cup ExportDirs)

NextExport ==
    \/ LoadNext
    \/ FirstPass
    \/ SetKeyword
    \/ SetSearch
    \/ Reingest

SpecExport == InitExport /\ [][NextExport]_vars
-----------------------------------------------------------------------------
(* Properties of load_local_data *)

\* the columns of file f that carry one of the aliases
AliasCols(f, aliases) == {c \in 1..Len(f.header) : normalize_col(f.header[c]) \in aliases}

\* f gets as far as the gate: its name gives a day and it can be read
Usable(f) == ~IsNull(extract_date_from_filename(f.name)) /\ CanRead(f)

\* f has a position and a streams column after alias mapping
HasMandatory(f) == AliasCols(f, PositionAliases) # {} /\ AliasCols(f, StreamsAliases) # {}

Contributes(f) == Usable(f) /\ HasMandatory(f)

\* the files among the first n that contribute, in order
Contributing(n) == SelectSeq([k \in 1..n |-> k], LAMBDA k : Contributes(files[k]))

RowCount(frames) == Len(Concat([f \in 1..Len(frames) |-> frames[f].rows]))

Column(df, name) == [r \in 1..Len(df.rows) |-> Cell(df, df.rows[r], name)]

\* C1: a source contributes a frame only if it has both a position and a
\* streams column after alias mapping; a source lacking one is skipped, adds
\* nothing and does not end the load, and every other source's frame is what
\* that source alone gives; the merged table holds the rows of those frames.
C1_RequiredFieldGate ==
    /\ pc # "raised" =>
          LET from == Contributing(i)
          IN  all_days = [j \in 1..Len(from) |->
                             DayFrame(files[from[j]],
                                      extract_date_from_filename(files[from[j]].name))]
    /\ pc = "raised" => Contributes(files[i])
    /\ pc = "done" => Len(out.rows) = RowCount(all_days)

\* a finished load with a source discarded by the gate and another source
\* whose rows are in the merged table
C1_Witness ==
    /\ pc = "done"
    /\ \E k \in 1..Len(files) : Usable(files[k]) /\ ~HasMandatory(files[k])
    /\ \E k \in 1..Len(files) : Contributes(files[k])
    /\ Len(out.rows) > 0

\* the text of the single column of f carrying one of the aliases, row by row
AliasTexts(f, aliases) ==
    LET c == CHOOSE c \in AliasCols(f, aliases) : TRUE
    IN  [r \in 1..Len(f.rows) |-> f.rows[r][c]]

\* the rows of f whose position and streams texts are both numbers
NumericRows(f) ==
    LET position == AliasTexts(f, PositionAliases)
        streams == AliasTexts(f, StreamsAliases)
    IN  SelectSeq([r \in 1..Len(f.rows) |-> r],
                  LAMBDA r : IsNumText(position[r]) /\ IsNumText(streams[r]))

\* the numbers of a column without a missing cell
AllNum(cells) == \A r \in 1..Len(cells) : IsNum(cells[r])
Numbers(cells) == [r \in 1..Len(cells) |-> cells[r].n]

LastFrame == all_days[Len(all_days)]

JustAppended == pc # "raised" /\ i >= 1 /\ Contributes(files[i])

\* C2: the frame a source contributes holds exactly the rows whose position
\* and streams both coerce to a number, in their original order, each with
\* its own values; the merged table holds those rows of every frame.
C2_RowLevelFilter ==
    /\ JustAppended =>
          LET f == files[i]
              kept == NumericRows(f)
              position == AliasTexts(f, PositionAliases)
              streams == AliasTexts(f, StreamsAliases)
              mandatory == AliasCols(f, PositionAliases) \cup AliasCols(f, StreamsAliases)
          IN  /\ Len(LastFrame.rows) = Len(kept)
              /\ AllNum(Column(LastFrame, "Position")) /\ AllNum(Column(LastFrame, "Streams"))
              /\ Numbers(Column(LastFrame, "Position")) =
                     [j \in 1..Len(kept) |-> ParseNum(position[kept[j]])]
              /\ Numbers(Column(LastFrame, "Streams")) =
                     [j \in 1..Len(kept) |-> ParseNum(streams[kept[j]])]
              /\ \A c \in 1..Len(f.header) :
                    c \notin mandatory =>
                        [j \in 1..Len(kept) |-> ToStr(LastFrame.rows[j][c])] =
                        [j \in 1..Len(kept) |->
                            IF f.rows[kept[j]][c] \in NAValues THEN "nan"
                            ELSE f.rows[kept[j]][c]]
    /\ pc = "done" /\ all_days # <<>> =>
          /\ Column(out, "Position") =
                 Column(concat(all_days), "Position")
          /\ Numbers(Column(out, "Streams")) =
                 Concat([f \in 1..Len(all_days) |-> Numbers(Column(all_days[f], "Streams"))])

\* a source loses one row to the filter and keeps another
C2_Witness ==
    /\ JustAppended
    /\ Len(LastFrame.rows) >= 1
    /\ Len(LastFrame.rows) < Len(files[i].rows)

\* C3 as claimed: every row of the merged table has non-null date, position,
\* streams, track, artist and url.
C3_NoNullField ==
    pc = "done" =>
        \A r \in 1..Len(out.rows) : \A c \in 1..Len(out.columns) : ~IsNull(out.rows[r][c])

\* C4 as claimed: every row of the merged table has position >= 1.
C4_PositionAtLeastOne ==
    pc = "done" => \A r \in 1..Len(out.rows) : Cell(out, out.rows[r], "Position").n >= 1

\* C4 as amended: every row of the merged table has a non-null numeric
\* position, which is the number written in its source's position field; no
\* lower bound is applied, so 0 and negative ranks are kept as they are.
C4_PositionIsSourceNumber ==
    pc = "done" =>
        AllNum(Column(out, "Position")) /\
        Numbers(Column(out, "Position")) =
            LET from == Contributing(i)
            IN  Concat([j \in 1..Len(from) |->
                    LET f == files[from[j]]
                        kept == NumericRows(f)
                        position == AliasTexts(f, PositionAliases)
                    IN  [r \in 1..Len(kept) |-> ParseNum(position[kept[r]])]])

\* a merged table with a rank below 1
C4_Witness ==
    /\ pc = "done"
    /\ \E r \in 1..Len(out.rows) : Cell(out, out.rows[r], "Position").n < 1

\* C5 as claimed: the load never aborts, whatever the files hold.
C5_NeverAborts == pc # "raised"

\* the identifier the claim's pattern names: u is spotify:track:<id> with a
\* non-empty alphanumeric id and nothing after it
IsFullUri(u) ==
    /\ Len(u) > Len(UriPrefix)
    /\ SubSeq(u, 1, Len(UriPrefix)) = UriPrefix
    /\ \A p \in (Len(UriPrefix) + 1)..Len(u) : IsAlnum(Ch(u, p))

\* u starts with spotify:track: and one alphanumeric character at least
HasUriStart(u) ==
    /\ Len(u) > Len(UriPrefix)
    /\ SubSeq(u, 1, Len(UriPrefix)) = UriPrefix
    /\ IsAlnum(Ch(u, Len(UriPrefix) + 1))

\* the end of the alphanumeric run that starts right after the prefix
IdEnd(u) ==
    CHOOSE e \in (Len(UriPrefix) + 1)..Len(u) :
        /\ \A p \in (Len(UriPrefix) + 1)..e : IsAlnum(Ch(u, p))
        /\ e = Len(u) \/ ~IsAlnum(Ch(u, e + 1))

\* the frame just appended took its URL from a URI column
UrlFromUri == JustAppended /\ AliasCols(files[i], UrlAliases) = {} /\ AliasCols(files[i], UriAliases) # {}

\* C9 as claimed: without a url column, a row's url is the track link of its
\* uri exactly when the uri (surrounding blanks aside) is spotify:track:<id>
\* with an alphanumeric id, and is empty for every other uri.
C9_UrlIffUriIsIdentifier ==
    UrlFromUri =>
        \A r \in 1..Len(LastFrame.rows) :
            LET x == Cell(LastFrame, LastFrame.rows[r], "URI")
                url == Cell(LastFrame, LastFrame.rows[r], "URL")
                u == Strip(x.v)
            IN  IF x.k = "str" /\ IsFullUri(u)
                THEN url = StrV(UrlPrefix \o SubSeq(u, Len(UriPrefix) + 1, Len(u)))
                ELSE url = StrV("")

\* C9 as amended: without a url column, a row's url is the track link of the
\* longest alphanumeric run that follows spotify:track: at the start of the
\* uri, blanks around the uri stripped and whatever follows the run ignored;
\* it is empty when the uri is no string or does not start that way, and for
\* every row when the source has neither column.  The merged table carries
\* these urls.
C9_UrlFromUriStart ==
    /\ UrlFromUri =>
          \A r \in 1..Len(LastFrame.rows) :
              LET x == Cell(LastFrame, LastFrame.rows[r], "URI")
                  url == Cell(LastFrame, LastFrame.rows[r], "URL")
                  u == Strip(x.v)
              IN  IF x.k = "str" /\ HasUriStart(u)
                  THEN url = StrV(UrlPrefix \o SubSeq(u, Len(UriPrefix) + 1, IdEnd(u)))
                  ELSE url = StrV("")
    /\ (JustAppended /\ AliasCols(files[i], UrlAliases \cup UriAliases) = {}) =>
          \A r \in 1..Len(LastFrame.rows) :
              Cell(LastFrame, LastFrame.rows[r], "URL") = StrV("")
    /\ pc = "done" /\ all_days # <<>> =>
          Column(out, "URL") = Concat([f \in 1..Len(all_days) |-> Column(all_days[f], "URL")])

\* a url made from a uri that carries more than the identifier
C9_Witness ==
    /\ pc = "done"
    /\ UrlFromUri
    /\ \E r \in 1..Len(LastFrame.rows) :
          LET x == Cell(LastFrame, LastFrame.rows[r], "URI")
          IN  /\ x.k = "str"
              /\ ~IsFullUri(x.v)
              /\ Cell(out, out.rows[r], "URL") # StrV("")


-----------------------------------------------------------------------------
(* Claims about the render pass *)

\* a pass has run since the load
Passed == pc = "done" /\ report # "start"

\* the rows of the merged table that the selection s lets through, told
\* from the widgets' values alone
Matching(s) ==
    {r \in 1..Len(out.rows) :
        LET row == out.rows[r]
            day == RowDate(out, row)
            lo == IF s.preset = "Custom"
                  THEN IF Len(s.date_range) = 2 THEN s.date_range[1] ELSE min_date(out)
                  ELSE SetMax({min_date(out), max_date(out) - PresetDays(s.preset) + 1})
            hi == IF s.preset = "Custom" /\ Len(s.date_range) = 2
                  THEN s.date_range[2] ELSE max_date(out)
        IN  /\ lo <= day /\ day <= hi
            /\ RowPosition(out, row) <= s.rank_max
            /\ s.artist_choice \in {"(All)", RowArtist(out, row)}
            /\ \/ Strip(s.keyword) = ""
               \/ ContainsNoCase(RowTrack(out, row), Strip(s.keyword))}

\* C6: after every render pass, whatever passes came before it: a merged
\* table of zero rows gives the no-data error with no filter applied and no
\* section rendered; a non-empty merged table whose filters leave zero rows
\* gives the no-match warning, never the error, and no section; a non-empty
\* merged table whose selection matches a row gives no report and all the
\* sections, also when the pass before it stopped on the warning.
C6_EmptyConditionsOrdered ==
    Passed =>
        IF out.rows = <<>>
        THEN report = "error" /\ sections = <<>> /\ df_f = EmptyFrame /\ sel = NoSel
        ELSE IF Matching(sel) = {}
        THEN report = "warning" /\ sections = <<>> /\ df_f.rows = <<>>
        ELSE /\ report = "none" /\ sections = AllSections
             /\ Len(df_f.rows) = Cardinality(Matching(sel))

\* a pass that renders everything right after a pass that stopped on the
\* warning, over the same merged table
C6_Witness ==
    /\ Passed /\ prev_report = "warning" /\ report = "none"
    /\ sections = AllSections /\ df_f.rows # <<>>
    /\ Len(df_f.rows) < Len(out.rows)

-----------------------------------------------------------------------------
(* Claims about the movers table *)

Rendered == pc = "done" /\ report = "none"

\* the rank changes of the rows of track t by artist a, when the rows of
\* every track come in the order the function order gives them: each row
\* but the first of its track has the position before it minus its own
ChangesOf(order, t, a) ==
    LET p == order[t]
    IN  {RowPosition(df_f, df_f.rows[p[j - 1]]) - RowPosition(df_f, df_f.rows[p[j]]) :
            j \in {k \in 2..Len(p) : RowArtist(df_f, df_f.rows[p[k]]) = a}}

PairsOf(df) ==
    {<<RowTrack(df, df.rows[r]), RowArtist(df, df.rows[r])>> : r \in 1..Len(df.rows)}

\* the pairs that have a change
Groups(order) == {g \in PairsOf(df_f) : ChangesOf(order, g[1], g[2]) # {}}

MoverKey(j) == <<movers[j].Track, movers[j].Artist>>

\* C7: with the filtered rows sorted by date ascending, every row after the
\* first of its track gets previous position minus current position; every
\* (track, artist) group with a change has the maximum of its changes as
\* best_improvement and the minimum as worst_drop; the table is sorted by
\* best_improvement descending and cut to at most 10 rows. Positions 10, 4,
\* 12 on three successive days give 6 and -8.
C7_MoverComputation ==
    Rendered =>
        \E order \in OrderChoices(df_f, TracksOf(df_f)) :
            /\ \A j \in 1..Len(movers) :
                  /\ MoverKey(j) \in Groups(order)
                  /\ movers[j].best_improvement
                        = SetMax(ChangesOf(order, movers[j].Track, movers[j].Artist))
                  /\ movers[j].worst_drop
                        = SetMin(ChangesOf(order, movers[j].Track, movers[j].Artist))
            /\ \A j, k \in 1..Len(movers) :
                  /\ j < k => movers[j].best_improvement >= movers[k].best_improvement
                  /\ j # k => MoverKey(j) # MoverKey(k)
            /\ Len(movers) <= 10
            /\ Len(movers) < 10 => Cardinality(Groups(order)) = Len(movers)
            /\ \A g \in Groups(order) \ {MoverKey(j) : j \in 1..Len(movers)} :
                  SetMax(ChangesOf(order, g[1], g[2])) <= movers[Len(movers)].best_improvement

\* the positions of the rows of the pair g in the filtered table, by day
PositionsByDay(g) ==
    {<<Cell(df_f, df_f.rows[r], "Date").n, RowPosition(df_f, df_f.rows[r])>> :
        r \in {x \in 1..Len(df_f.rows) : /\ RowTrack(df_f, df_f.rows[x]) = g[1]
                                         /\ RowArtist(df_f, df_f.rows[x]) = g[2]}}

\* the example of the claim among more groups than the table holds
C7_Witness ==
    /\ Rendered
    /\ PositionsByDay(<<"Kahani Suno", "Talha Anjum">>)
          = {<<20251221, 10>>, <<20251222, 4>>, <<20251223, 12>>}
    /\ Cardinality(PairsOf(df_f)) > 10
    /\ Len(movers) = 10
    /\ \E j \in 1..Len(movers) :
          movers[j] = [Track |-> "Kahani Suno", Artist |-> "Talha Anjum",
                       best_improvement |-> 6, worst_drop |-> -8]

\* the days on which the pair g has a row in the filtered table
DaysOfPair(g) == {x[1] : x \in PositionsByDay(g)}

\* C8: every row of the movers table is for a (track, artist) pair that has
\* rows on at least 2 distinct dates of the filtered selection, and no pair
\* has two rows in the table.
C8_PairOnTwoDates ==
    Rendered =>
        /\ \A j \in 1..Len(movers) : Cardinality(DaysOfPair(MoverKey(j))) >= 2
        /\ \A j, k \in 1..Len(movers) : j # k => MoverKey(j) # MoverKey(k)

-----------------------------------------------------------------------------
(* Claims about the export *)

\* the export of the last pass has been loaded as the only file of the data
\* directory, and no pass has run since
Reloaded == pc = "done" /\ rereads > 0 /\ sel = NoSel /\ report = "start"

ExportedField(r, name) == Cell(table_df, table_df.rows[r], name)
RereadField(r, name) == Cell(out, out.rows[r], name)

\* C10: exporting the table to CSV and reading that CSV through the load
\* gives the same rows back: the same date, position, track, artist,
\* streams and url for every row, with no row lost or added.
C10_RoundTrip ==
    Reloaded =>
        /\ Len(out.rows) = Len(table_df.rows)
        /\ \A r \in 1..Len(out.rows) :
              \A name \in {"Date", "Position", "Track", "Artist", "Streams", "URL"} :
                  RereadField(r, name) = ExportedField(r, name)

\* the link that comes back: a missing or empty link is read as missing
LinkBack(x) == IF x.k = "str" /\ x.v # "" THEN x ELSE NaN

\* C10 (amended): the export read back under a file name that carries the
\* day d gives one row per exported row, in the same order, with the same
\* position, streams, track and artist, the same non-empty url (an empty
\* or missing one comes back missing), and the date d whatever date was
\* exported; read back under a name without a day, as the download is
\* named, it gives no row at all.
C10_ReReadTakesDateFromName ==
    Reloaded =>
        LET d == extract_date_from_filename(files[1].name)
        IN  IF IsNull(d) THEN out.rows = <<>>
            ELSE /\ Len(out.rows) = Len(table_df.rows)
                 /\ \A r \in 1..Len(out.rows) :
                       /\ RereadField(r, "Position") = ExportedField(r, "Position")
                       /\ RereadField(r, "Streams") = ExportedField(r, "Streams")
                       /\ RereadField(r, "Track") = ExportedField(r, "Track")
                       /\ RereadField(r, "Artist") = ExportedField(r, "Artist")
                       /\ RereadField(r, "URL") = LinkBack(ExportedField(r, "URL"))
                       /\ RereadField(r, "Date") = d

\* a table of two days and of links present and missing, read back under
\* the name of one day
C10_Witness ==
    /\ Reloaded
    /\ ~IsNull(extract_date_from_filename(files[1].name))
    /\ Len(out.rows) >= 2
    /\ Cardinality({ExportedField(r, "Date") : r \in 1..Len(table_df.rows)}) = 2
    /\ \E r \in 1..Len(out.rows) : ExportedField(r, "URL").v # ""
    /\ \E r \in 1..Len(out.rows) : ExportedField(r, "URL").v = ""
====
